---- MODULE Spec2Model ----
(***************************************************************************)
(* A model of the JSON weather demo (AppliedGo/json).                      *)
(*                                                                         *)
(* Two programs are modelled:                                              *)
(*   build = "cli"   the version whose main dispatches on os.Args[1]       *)
(*                   (src/unnamed/part_000)                                *)
(*   build = "demo"  the published version whose main runs                 *)
(*                   `go server(); client()` (src/json.go:294-419)         *)
(* together with the draft encode/decode pair of src/json.go:94-126.       *)
(*                                                                         *)
(* JSON text is modelled as a sequence of tokens (whitespace dropped);     *)
(* a Go string is a sequence of one-character strings, where "xFF" stands  *)
(* for a byte that is not valid UTF-8 and "uFFFD" for U+FFFD.              *)
(* A float32 is written by its shortest decimal form m * 10^(-e).          *)
(***************************************************************************)
EXTENDS Integers, Sequences, FiniteSets, TLC

(***************************************************************************)
(* Characters and names                                                    *)
(***************************************************************************)
UpperCase == <<"A","B","C","D","E","F","G","H","I","J","K","L","M",
               "N","O","P","Q","R","S","T","U","V","W","X","Y","Z">>
LowerCase == <<"a","b","c","d","e","f","g","h","i","j","k","l","m",
               "n","o","p","q","r","s","t","u","v","w","x","y","z">>

IsUpper(c) == \E i \in 1..Len(UpperCase) : UpperCase[i] = c

ToLower(c) ==
  IF IsUpper(c)
  THEN LowerCase[CHOOSE i \in 1..Len(UpperCase) : UpperCase[i] = c]
  ELSE c

\* encoding/json matches an object key against a field name exactly or,
\* failing that, ignoring letter case.
equalFold(a, b) ==
  /\ Len(a) = Len(b)
  /\ \A i \in 1..Len(a) : ToLower(a[i]) = ToLower(b[i])

\* Wire names of the spec's schema, as they appear inside the struct tags.
n_locationName  == <<"l","o","c","a","t","i","o","n","N","a","m","e">>
n_weather       == <<"w","e","a","t","h","e","r">>
n_temperature   == <<"t","e","m","p","e","r","a","t","u","r","e">>
n_celsius       == <<"c","e","l","s","i","u","s">>
n_temp_forecast == <<"t","e","m","p","_","f","o","r","e","c","a","s","t">>
n_wind          == <<"w","i","n","d">>
n_direction     == <<"d","i","r","e","c","t","i","o","n">>
n_speed         == <<"s","p","e","e","d">>
n_lat           == <<"l","a","t">>
n_lon           == <<"l","o","n">>

\* Go field names.
g_LocationName  == <<"L","o","c","a","t","i","o","n","N","a","m","e">>
g_Weather       == <<"W","e","a","t","h","e","r">>
g_Temperature   == <<"T","e","m","p","e","r","a","t","u","r","e">>
g_Celsius       == <<"C","e","l","s","i","u","s">>
g_TempForecast  == <<"T","e","m","p","F","o","r","e","c","a","s","t">>
g_Wind          == <<"W","i","n","d">>
g_Direction     == <<"D","i","r","e","c","t","i","o","n">>
g_Speed         == <<"S","p","e","e","d">>
g_Lat           == <<"L","a","t">>
g_Lon           == <<"L","o","n">>
g_tempForecast  == <<"t","e","m","p","F","o","r","e","c","a","s","t">>

\* The text of a struct tag as the source writes it: `json: <name>`
\* (a colon, a space, and the name without quotes).
TagText(name) == <<"j","s","o","n",":"," ">> \o name

(***************************************************************************)
(* reflect.StructTag.Lookup, which encoding/json calls for the key "json". *)
(* A tag is a list of key:"value" pairs; the scan stops at the first pair  *)
(* that is not in that form.  Result: the value as a character sequence,   *)
(* <<>> when the key is not found.                                         *)
(***************************************************************************)
RECURSIVE SkipSpaces(_, _)
SkipSpaces(tag, i) ==
  IF i <= Len(tag) /\ tag[i] = " " THEN SkipSpaces(tag, i + 1) ELSE i

RECURSIVE ScanName(_, _)
ScanName(tag, i) ==
  IF i <= Len(tag) /\ tag[i] # " " /\ tag[i] # ":" /\ tag[i] # "\""
  THEN ScanName(tag, i + 1) ELSE i

RECURSIVE ScanQuoted(_, _)
ScanQuoted(tag, i) ==
  IF i <= Len(tag) /\ tag[i] # "\"" THEN ScanQuoted(tag, i + 1) ELSE i

RECURSIVE Lookup(_, _, _)
\* The pair name:"value" with the name at s..c-1 and the closing quote at q.
LookupValue(tag, key, s, c, q) ==
  IF q > Len(tag) THEN <<>>
  ELSE IF SubSeq(tag, s, c - 1) = key THEN SubSeq(tag, c + 2, q - 1)
  ELSE Lookup(tag, key, q + 1)

\* The name starts at s and ends before c: a colon and a quote must follow.
LookupName(tag, key, s, c) ==
  IF s > Len(tag) THEN <<>>
  ELSE IF c = s \/ c + 1 > Len(tag) THEN <<>>
  ELSE IF tag[c] # ":" \/ tag[c + 1] # "\"" THEN <<>>
  ELSE LookupValue(tag, key, s, c, ScanQuoted(tag, c + 2))

LookupAt(tag, key, s) == LookupName(tag, key, s, ScanName(tag, s))

Lookup(tag, key, from) == LookupAt(tag, key, SkipSpaces(tag, from))

(***************************************************************************)
(* The struct types.  Each field: its Go name (as the record key `go` and  *)
(* as characters `chars`), its tag text and its type.                      *)
(***************************************************************************)
Fld(go, chars, tag, type) ==
  [go |-> go, chars |-> chars, tag |-> tag, type |-> type]

\* src/json.go:312-319 (the same in src/unnamed/part_000:103-110)
weatherData ==
  << Fld("LocationName", g_LocationName, TagText(n_locationName), "string"),
     Fld("Weather", g_Weather, TagText(n_weather), "string"),
     Fld("Temperature", g_Temperature, TagText(n_temperature), "int"),
     Fld("Celsius", g_Celsius, TagText(n_celsius), "bool"),
     Fld("TempForecast", g_TempForecast, TagText(n_temp_forecast), "[]int"),
     Fld("Wind", g_Wind, TagText(n_wind), "windData") >>

\* src/json.go:321-324
windData ==
  << Fld("Direction", g_Direction, TagText(n_direction), "string"),
     Fld("Speed", g_Speed, TagText(n_speed), "int") >>

\* src/json.go:330-333
loc ==
  << Fld("Lat", g_Lat, TagText(n_lat), "float32"),
     Fld("Lon", g_Lon, TagText(n_lon), "float32") >>

\* src/unnamed/part_000:121-124: the tag of Lon names lat.
locPart000 ==
  << Fld("Lat", g_Lat, TagText(n_lat), "float32"),
     Fld("Lon", g_Lon, TagText(n_lat), "float32") >>

\* src/json.go:94-101: the draft, whose fields are not exported; only
\* tempForecast carries a tag.
draftWeatherData ==
  << Fld("locationName", n_locationName, <<>>, "string"),
     Fld("weather", n_weather, <<>>, "string"),
     Fld("temperature", n_temperature, <<>>, "int"),
     Fld("celsius", n_celsius, <<>>, "bool"),
     Fld("tempForecast", g_tempForecast, TagText(n_temp_forecast), "[]int"),
     Fld("wind", n_wind, <<>>, "draftWindData") >>

\* src/json.go:103-106
draftWindData ==
  << Fld("direction", n_direction, <<>>, "string"),
     Fld("speed", n_speed, <<>>, "int") >>

StructTypes ==
  {"weatherData", "windData", "loc", "locPart000",
   "draftWeatherData", "draftWindData"}

StructDecl(T) ==
  CASE T = "weatherData"      -> weatherData
    [] T = "windData"         -> windData
    [] T = "loc"              -> loc
    [] T = "locPart000"       -> locPart000
    [] T = "draftWeatherData" -> draftWeatherData
    [] T = "draftWindData"    -> draftWindData

\* encoding/json sees only exported fields (first letter upper case).
IsExported(f) == IsUpper(f.chars[1])

\* The JSON key of a field: the tag's json value when the tag has one,
\* the Go field name otherwise.
TagOrName(v, chars) == IF v # <<>> THEN v ELSE chars

JsonName(f) == TagOrName(Lookup(f.tag, <<"j","s","o","n">>, 1), f.chars)

\* Two fields that end up with the same JSON key at the same depth cancel
\* each other.
dominantFields(named) ==
  SelectSeq(named,
            LAMBDA f : Cardinality({i \in 1..Len(named) :
                                      named[i].name = f.name}) = 1)

namedFields(all) ==
  dominantFields([i \in 1..Len(all) |->
                    [go |-> all[i].go, name |-> JsonName(all[i]),
                     type |-> all[i].type]])

\* The fields encoding/json works with, in declaration order.
typeFields(T) == namedFields(SelectSeq(StructDecl(T), IsExported))

(***************************************************************************)
(* Go values.  string: a character sequence; int; bool; float32: Fin(m, e) *)
(* for the decimal m * 10^(-e) in lowest form, or NaN / +Inf / -Inf;       *)
(* []int: nil or a sequence; a struct: a record keyed by Go field names.   *)
(***************************************************************************)
Fin(m, e) == [c |-> "fin", m |-> m, e |-> e]
\* -0, which is not equal to 0 as a value of the program's output
NegZero   == [c |-> "fin", m |-> 0, e |-> 0, neg |-> TRUE]
NaN       == [c |-> "NaN", m |-> 0, e |-> 0]
PosInf    == [c |-> "+Inf", m |-> 0, e |-> 0]

NilSlice   == [isNil |-> TRUE, el |-> <<>>]
Slice(els) == [isNil |-> FALSE, el |-> els]

RECURSIVE Zero(_)
Zero(T) ==
  CASE T = "string"  -> <<>>
    [] T = "int"     -> 0
    [] T = "bool"    -> FALSE
    [] T = "float32" -> Fin(0, 0)
    [] T = "[]int"   -> NilSlice
    [] OTHER ->
         LET d == StructDecl(T)
         IN [g \in {d[i].go : i \in 1..Len(d)} |->
               Zero((CHOOSE f \in {d[i] : i \in 1..Len(d)} : f.go = g).type)]

(***************************************************************************)
(* JSON tokens                                                             *)
(***************************************************************************)
Tok(t)       == [t |-> t]
StrTok(s)    == [t |-> "str", s |-> s]
\* A number literal: the digits of m with the decimal point e places from
\* the right; e = 0 is a literal without fraction.
NumTok(m, e) == [t |-> "num", m |-> m, e |-> e]
\* The literal -0
NegZeroTok   == [t |-> "num", m |-> 0, e |-> 0, neg |-> TRUE]

LBrace   == Tok("{")
RBrace   == Tok("}")
LBracket == Tok("[")
RBracket == Tok("]")
Colon    == Tok(":")
Comma    == Tok(",")
TrueTok  == Tok("true")
FalseTok == Tok("false")
NullTok  == Tok("null")

NoErr == "nil"

(***************************************************************************)
(* json.Marshal                                                            *)
(***************************************************************************)
\* Bytes that are not valid UTF-8 are written as U+FFFD.
coerceUTF8(s) == [i \in 1..Len(s) |-> IF s[i] = "xFF" THEN "uFFFD" ELSE s[i]]

RECURSIVE JoinInts(_, _)
JoinInts(els, i) ==
  IF i > Len(els) THEN <<>>
  ELSE (IF i > 1 THEN <<Comma>> ELSE <<>>) \o <<NumTok(els[i], 0)>>
       \o JoinInts(els, i + 1)

\* The object around the members r, or r's error.
MarshalObject(r) ==
  IF r.err # NoErr THEN [err |-> r.err, data |-> <<>>]
  ELSE [err |-> NoErr, data |-> <<LBrace>> \o r.data \o <<RBrace>>]

\* Member i, "name": one, followed by the members rest.
MarshalMember(i, name, one, rest) ==
  IF one.err # NoErr THEN [err |-> one.err, data |-> <<>>]
  ELSE IF rest.err # NoErr THEN [err |-> rest.err, data |-> <<>>]
  ELSE [err |-> NoErr,
        data |-> (IF i > 1 THEN <<Comma>> ELSE <<>>)
                 \o <<StrTok(name), Colon>> \o one.data \o rest.data]

RECURSIVE MarshalValue(_, _), MarshalFields(_, _, _)
MarshalValue(T, v) ==
  CASE T = "string"  -> [err |-> NoErr, data |-> <<StrTok(coerceUTF8(v))>>]
    [] T = "int"     -> [err |-> NoErr, data |-> <<NumTok(v, 0)>>]
    [] T = "bool"    -> [err |-> NoErr,
                         data |-> <<IF v THEN TrueTok ELSE FalseTok>>]
    [] T = "float32" ->
         IF v.c = "fin"
         THEN [err |-> NoErr,
               data |-> <<IF "neg" \in DOMAIN v THEN NegZeroTok
                          ELSE NumTok(v.m, v.e)>>]
         ELSE [err |-> "UnsupportedValueError", data |-> <<>>]
    [] T = "[]int"   ->
         IF v.isNil
         THEN [err |-> NoErr, data |-> <<NullTok>>]
         ELSE [err |-> NoErr,
               data |-> <<LBracket>> \o JoinInts(v.el, 1) \o <<RBracket>>]
    [] OTHER -> MarshalObject(MarshalFields(typeFields(T), v, 1))

MarshalFields(fs, v, i) ==
  IF i > Len(fs) THEN [err |-> NoErr, data |-> <<>>]
  ELSE MarshalMember(i, fs[i].name,
                     MarshalValue(fs[i].type, v[fs[i].go]),
                     MarshalFields(fs, v, i + 1))

\* json.Marshal(v) for a value v of struct type T; on error the bytes are nil.
Marshal(T, v) == MarshalValue(T, v)

(***************************************************************************)
(* The JSON syntax check and parse: a token sequence to a tree.            *)
(*   [t |-> "obj", mem |-> <<[k, v], ...>>]   [t |-> "arr", el |-> <<..>>] *)
(*   and the literal tokens themselves as leaves.                          *)
(***************************************************************************)
ParseFail == [ok |-> FALSE, i |-> 0, v |-> NullTok]
ParseOk(i, v) == [ok |-> TRUE, i |-> i, v |-> v]

RECURSIVE ParseValue(_, _), ParseMembers(_, _, _), ParseElements(_, _, _)

ParseValue(d, i) ==
  IF i > Len(d) THEN ParseFail
  ELSE CASE d[i].t \in {"str", "num", "true", "false", "null"} ->
              ParseOk(i + 1, d[i])
         [] d[i].t = "{" ->
              IF i + 1 <= Len(d) /\ d[i + 1].t = "}"
              THEN ParseOk(i + 2, [t |-> "obj", mem |-> <<>>])
              ELSE ParseMembers(d, i + 1, <<>>)
         [] d[i].t = "[" ->
              IF i + 1 <= Len(d) /\ d[i + 1].t = "]"
              THEN ParseOk(i + 2, [t |-> "arr", el |-> <<>>])
              ELSE ParseElements(d, i + 1, <<>>)
         [] OTHER -> ParseFail

\* After the member value r of key k: a comma and more members, or "}".
AfterMember(d, k, acc, r) ==
  IF ~r.ok THEN ParseFail
  ELSE IF r.i > Len(d) THEN ParseFail
  ELSE IF d[r.i].t = "}"
  THEN ParseOk(r.i + 1, [t |-> "obj", mem |-> Append(acc, [k |-> k, v |-> r.v])])
  ELSE IF d[r.i].t = ","
  THEN ParseMembers(d, r.i + 1, Append(acc, [k |-> k, v |-> r.v]))
  ELSE ParseFail

ParseMembers(d, i, acc) ==
  IF i + 1 > Len(d) THEN ParseFail
  ELSE IF d[i].t # "str" \/ d[i + 1].t # ":" THEN ParseFail
  ELSE AfterMember(d, d[i].s, acc, ParseValue(d, i + 2))

\* After the element r: a comma and more elements, or "]".
AfterElement(d, acc, r) ==
  IF ~r.ok THEN ParseFail
  ELSE IF r.i > Len(d) THEN ParseFail
  ELSE IF d[r.i].t = "]"
  THEN ParseOk(r.i + 1, [t |-> "arr", el |-> Append(acc, r.v)])
  ELSE IF d[r.i].t = ","
  THEN ParseElements(d, r.i + 1, Append(acc, r.v))
  ELSE ParseFail

ParseElements(d, i, acc) == AfterElement(d, acc, ParseValue(d, i))

WholeInput(d, r) == r.ok /\ r.i = Len(d) + 1

\* checkValid: the whole input is exactly one JSON value.
checkValid(d) == WholeInput(d, ParseValue(d, 1))

(***************************************************************************)
(* json.Unmarshal                                                          *)
(***************************************************************************)
RECURSIVE Pow10(_)
Pow10(n) == IF n = 0 THEN 1 ELSE 10 * Pow10(n - 1)

\* 2^n by squaring, for n below 31.
RECURSIVE Pow2(_)
Pow2(n) ==
  IF n = 0 THEN 1
  ELSE IF n % 2 = 1 THEN 2 * Pow2(n - 1)
  ELSE Pow2(n \div 2) * Pow2(n \div 2)

Pow5(n) == Pow10(n) \div Pow2(n)

\* The number of bits of q, for q below 2^31: halving the width.
RECURSIVE BitLen(_)
BitLen(q) ==
  IF q >= 65536 THEN 16 + BitLen(q \div 65536)
  ELSE IF q >= 256 THEN 8 + BitLen(q \div 256)
  ELSE IF q >= 16 THEN 4 + BitLen(q \div 16)
  ELSE IF q >= 4 THEN 2 + BitLen(q \div 4)
  ELSE IF q >= 2 THEN 2
  ELSE q

RECURSIVE Digits(_)
Digits(n) == IF n < 10 THEN 1 ELSE 1 + Digits(n \div 10)

\* A decimal in lowest form: no zero at the end of the fraction.
RECURSIVE Lowest(_, _)
Lowest(m, e) ==
  IF e > 0 /\ m % 10 = 0 THEN Lowest(m \div 10, e - 1) ELSE Fin(m, e)

\* The digits of n that count: without the zeros at its end.
RECURSIVE SigDigits(_)
SigDigits(n) ==
  IF n >= 10 /\ n % 10 = 0 THEN SigDigits(n \div 10) ELSE Digits(n)

\* strconv.ParseFloat(s, 32) rounds a decimal to the nearest float32, ties
\* to the even mantissa.  The result is man * 2^exp with
\* 2^23 <= man < 2^24, and cmp, the sign of (decimal - result).  man holds
\* the 24 leading bits of the decimal, bit is the bit after them, sticky
\* tells whether anything follows that bit.
RoundBits(man, exp, bit, sticky) ==
  IF bit = 1 /\ (sticky \/ man % 2 = 1)
  THEN IF man + 1 = Pow2(24)
       THEN [man |-> Pow2(23), exp |-> exp + 1, cmp |-> -1]
       ELSE [man |-> man + 1, exp |-> exp, cmp |-> -1]
  ELSE [man |-> man, exp |-> exp,
        cmp |-> IF bit = 0 /\ ~sticky THEN 0 ELSE 1]

\* The first n bits of the fraction R / V (R < V < 2^21), as the number d,
\* and what is left of the fraction, r / V: at most ten bits at a time, so
\* that no product leaves 31 bits.
Chunk(R, t, V) == [d |-> (R * Pow2(t)) \div V, r |-> (R * Pow2(t)) % V]
More(x, t, V) ==
  [d |-> x.d * Pow2(t) + Chunk(x.r, t, V).d, r |-> Chunk(x.r, t, V).r]
FracBits(R, V, n) ==
  IF n <= 10 THEN Chunk(R, n, V)
  ELSE IF n <= 20 THEN More(Chunk(R, 10, V), n - 10, V)
  ELSE More(More(Chunk(R, 10, V), 10, V), n - 20, V)

\* The nearest float32 to (Q + R/V) * 2^(-s) for Q >= 1 of b bits: a Q of
\* more than 24 bits loses its low bits, a shorter one is filled up with
\* the n = 25 - b leading bits of the fraction, held in fr.
ShortBits(Q, fr, n, s) ==
  RoundBits((Q * Pow2(n) + fr.d) \div 2, 1 - n - s,
            (Q * Pow2(n) + fr.d) % 2, fr.r # 0)
Normal(Q, R, V, s, b) ==
  IF b >= 25
  THEN RoundBits(Q \div Pow2(b - 24), b - 24 - s, (Q \div Pow2(b - 25)) % 2,
                 Q % Pow2(b - 25) # 0 \/ R # 0)
  ELSE ShortBits(Q, FracBits(R, V, 25 - b), 25 - b, s)

\* The nearest float32 to (Q + R/V) * 2^(-s).  A decimal below one, R / V,
\* is shifted by t places to bring its leading bit in front.
Binary(Q, R, V, s) ==
  IF Q > 0 THEN Normal(Q, R, V, s, BitLen(Q))
  ELSE LET t0 == BitLen(V) - BitLen(R)
           t  == IF R * Pow2(t0) >= V THEN t0 ELSE t0 + 1
       IN Normal(1, R * Pow2(t) - V, V, s + t, 1)

\* The float32 nearest to (c + h/2) * 10^p, for c + h > 0 and h in {0, 1}.
\* With N = 2c + 1 for a half and N = c without, and 10^(-k) =
\* 1 / (5^k * 2^k), it is N * 10^p / 2^h or N / 5^k / 2^(k + h).
Float32Bits(c, h, p) ==
  IF c = 0 /\ h = 0 THEN [man |-> 0, exp |-> 0, cmp |-> 0]
  ELSE IF p >= 0
  THEN Binary((h * (c + 1) + c) * Pow10(p), 0, 1, h)
  ELSE Binary((h * (c + 1) + c) \div Pow5(-p), (h * (c + 1) + c) % Pow5(-p),
              Pow5(-p), h - p)

SameFloat(a, b) == a.man = b.man /\ a.exp = b.exp

\* strconv.FormatFloat(f, 'f', -1, 32) writes the shortest decimal that
\* ParseFloat reads back as f, and of several the one nearest to f.  On the
\* grid of the multiples of 10^p it is found from a multiple c that reads
\* back as f (rc is what c reads as): towards f until the next multiple is
\* another float or lies beyond f, and then the nearer of the two.
Nearer(below, p, f, mid) ==
  IF mid.cmp < 0 THEN below + 1
  ELSE IF mid.cmp > 0 THEN below
  ELSE IF below % 2 = 0 THEN below ELSE below + 1

RECURSIVE WalkUp(_, _, _, _), WalkDown(_, _, _, _)
WalkUp(c, p, f, next) ==
  IF ~SameFloat(next, f) THEN c
  ELSE IF next.cmp = 0 THEN c + 1
  ELSE IF next.cmp > 0 THEN Nearer(c, p, f, Float32Bits(c, 1, p))
  ELSE WalkUp(c + 1, p, f, Float32Bits(c + 2, 0, p))

WalkDown(c, p, f, prev) ==
  IF c = 1 THEN c
  ELSE IF ~SameFloat(prev, f) THEN c
  ELSE IF prev.cmp = 0 THEN c - 1
  ELSE IF prev.cmp < 0 THEN Nearer(c - 1, p, f, Float32Bits(c - 1, 1, p))
  ELSE WalkDown(c - 1, p, f, Float32Bits(c - 2, 0, p))

Nearest(c, p, f, rc) ==
  IF rc.cmp = 0 THEN c
  ELSE IF rc.cmp < 0 THEN WalkUp(c, p, f, Float32Bits(c + 1, 0, p))
  ELSE IF c = 1 THEN c
  ELSE WalkDown(c, p, f, Float32Bits(c - 1, 0, p))

\* c * 10^p as a decimal in lowest form.
Decimal(c, p) == IF p >= 0 THEN Fin(c * Pow10(p), 0) ELSE Lowest(c, -p)

\* The grid of n significant digits around the decimal m * 10^(-e), whose
\* m has dm digits: the multiple c0 below it and the one above.
RECURSIVE ShortestFrom(_, _, _, _, _)
OnGrid(m, e, dm, n, f, c0, p, r0, r1) ==
  IF SameFloat(r0, f) THEN Decimal(Nearest(c0, p, f, r0), p)
  ELSE IF SameFloat(r1, f) THEN Decimal(Nearest(c0 + 1, p, f, r1), p)
  ELSE ShortestFrom(m, e, dm, n + 1, f)

ShortestFrom(m, e, dm, n, f) ==
  IF n >= dm
  THEN Decimal(Nearest(m, -e, f, f), -e)
  ELSE OnGrid(m, e, dm, n, f, m \div Pow10(dm - n), dm - n - e,
              Float32Bits(m \div Pow10(dm - n), 0, dm - n - e),
              Float32Bits(m \div Pow10(dm - n) + 1, 0, dm - n - e))

\* The float32 of the positive decimal m * 10^(-e), as the shortest decimal
\* that denotes it.  Six significant digits always come back as they are
\* (FLT_DIG), longer literals are rounded.
Float32Of(m, e) ==
  IF SigDigits(m) <= 6 THEN Lowest(m, e)
  ELSE ShortestFrom(m, e, Digits(m), 6, Float32Bits(m, 0, -e))

\* strconv.ParseFloat(literal, 32) for the literals of the model: at most
\* nine places after the point, below 10^9 in magnitude.
ParseFloat(lit) ==
  IF lit.m = 0 THEN (IF "neg" \in DOMAIN lit THEN NegZero ELSE Fin(0, 0))
  ELSE IF lit.m < 0 THEN [Float32Of(-lit.m, lit.e) EXCEPT !.m = -@]
  ELSE Float32Of(lit.m, lit.e)

\* The field an object key selects: an exact match, else the first field
\* whose name equals the key ignoring case; 0 when there is none.
Least(S) == CHOOSE i \in S : \A j \in S : i <= j

PreferExact(exact, fold) ==
  IF exact # {} THEN Least(exact)
  ELSE IF fold # {} THEN Least(fold)
  ELSE 0

FindField(fs, key) ==
  PreferExact({i \in 1..Len(fs) : fs[i].name = key},
              {i \in 1..Len(fs) : equalFold(fs[i].name, key)})

FirstErr(a, b) == IF a # NoErr THEN a ELSE b

RECURSIVE FirstErrOf(_, _)
FirstErrOf(rs, i) ==
  IF i > Len(rs) THEN NoErr ELSE FirstErr(rs[i].err, FirstErrOf(rs, i + 1))

\* Decode tree into a value of type T that currently holds cur.  A type
\* mismatch is recorded (the first one is what Unmarshal returns) and the
\* decoding goes on with the rest of the input.
DecodeOk(x) == [err |-> NoErr, val |-> x]
Mismatch(cur) == [err |-> "UnmarshalTypeError", val |-> cur]

\* While a value is being decoded a slice also has bk, what its backing
\* array holds behind its length: array() sets the length back at the end
\* of a JSON array and puts it up again, over the same memory, when the key
\* comes once more.
Backing(cur) == IF "bk" \in DOMAIN cur THEN cur.bk ELSE <<>>

\* What element i of the slice holds before it is decoded into.
Held(full, i) == IF i <= Len(full) THEN full[i] ELSE 0

\* The slice of the element results rs over the memory full, with the
\* first of their errors; a JSON array without elements gives a new, empty
\* slice.
SliceOf(rs, full) ==
  IF Len(rs) = 0
  THEN [err |-> NoErr, val |-> [isNil |-> FALSE, el |-> <<>>, bk |-> <<>>]]
  ELSE [err |-> FirstErrOf(rs, 1),
        val |-> [isNil |-> FALSE,
                 el |-> [i \in 1..Len(rs) |-> rs[i].val],
                 bk |-> SubSeq(full, Len(rs) + 1, Len(full))]]

RECURSIVE DecodeValue(_, _, _), DecodeMembers(_, _, _, _, _)

\* Member i selects field f (0: none) of fs.
DecodeMember(fs, mem, i, cur, err, f) ==
  IF f = 0 THEN DecodeMembers(fs, mem, i + 1, cur, err)
  ELSE DecodeMembers(fs, mem, i + 1,
         [cur EXCEPT ![fs[f].go] =
            DecodeValue(fs[f].type, mem[i].v, cur[fs[f].go]).val],
         FirstErr(err, DecodeValue(fs[f].type, mem[i].v, cur[fs[f].go]).err))

DecodeValue(T, tree, cur) ==
  IF tree.t = "null"
  THEN DecodeOk(IF T = "[]int" THEN NilSlice ELSE cur)
  ELSE CASE T = "string" ->
              IF tree.t = "str" THEN DecodeOk(coerceUTF8(tree.s))
              ELSE Mismatch(cur)
         [] T = "int" ->
              IF tree.t = "num" /\ tree.e = 0 THEN DecodeOk(tree.m)
              ELSE Mismatch(cur)
         [] T = "bool" ->
              IF tree.t \in {"true", "false"} THEN DecodeOk(tree.t = "true")
              ELSE Mismatch(cur)
         [] T = "float32" ->
              IF tree.t = "num" THEN DecodeOk(ParseFloat(tree))
              ELSE Mismatch(cur)
         [] T = "[]int" ->
              IF tree.t = "arr"
              THEN SliceOf([i \in 1..Len(tree.el) |->
                              DecodeValue("int", tree.el[i],
                                          Held(cur.el \o Backing(cur), i))],
                           cur.el \o Backing(cur))
              ELSE Mismatch(cur)
         [] OTHER ->
              IF tree.t = "obj"
              THEN DecodeMembers(typeFields(T), tree.mem, 1, cur, NoErr)
              ELSE Mismatch(cur)

DecodeMembers(fs, mem, i, cur, err) ==
  IF i > Len(mem) THEN [err |-> err, val |-> cur]
  ELSE DecodeMember(fs, mem, i, cur, err, FindField(fs, coerceUTF8(mem[i].k)))

\* The value as the program has it afterwards: a slice is its elements.
RECURSIVE Visible(_, _)
Visible(T, v) ==
  CASE T \in {"string", "int", "bool", "float32"} -> v
    [] T = "[]int" -> [isNil |-> v.isNil, el |-> v.el]
    [] OTHER ->
         LET d == StructDecl(T)
         IN [g \in {d[i].go : i \in 1..Len(d)} |->
               Visible((CHOOSE f \in {d[i] : i \in 1..Len(d)} : f.go = g).type,
                       v[g])]

Decoded(T, r) == [err |-> r.err, val |-> Visible(T, r.val)]

\* json.Unmarshal(data, &v) with v a zero value of struct type T.
Unmarshal(T, data) ==
  IF ~checkValid(data)
  THEN [err |-> "SyntaxError", val |-> Zero(T)]
  ELSE Decoded(T, DecodeValue(T, ParseValue(data, 1).v, Zero(T)))

(***************************************************************************)
(* The draft codec, src/json.go:109-126.                                   *)
(***************************************************************************)
encode(w) == Marshal("draftWeatherData", w)

decode(weatherJson) == Unmarshal("draftWeatherData", weatherJson)

(***************************************************************************)
(* The exchange: state                                                     *)
(***************************************************************************)
VARIABLES
  build,      \* "cli" (src/unnamed/part_000) or "demo" (src/json.go:294-419)
  args,       \* os.Args[1:]
  portOwner,  \* who listens on :8080: "free", "ours" or "foreign"
  mainPc,     \* "start", "server", "client", "exited"
  exitCode,   \* -1 while the process runs, then its exit status
  stdout,     \* what the process printed, in order
  logged,     \* the kinds of messages written with package log
  srvPc,      \* server(): "idle", "start", "serving", "returned"
  cliPc,      \* client(): "idle", "marshal", "do", "wait", "fatal", "print",
              \*           "close", "returned"
  cliJson,    \* the client's locJson
  cliConn,    \* 0: no connection tried; -2: the connection was refused;
              \* -1: connected to a foreign server; n: our server's conns[n]
  cliResp,    \* the response client.Do returned
  conns,      \* the requests our server accepted, in order of arrival
  posts,      \* how many requests other HTTP clients have sent
  ctype,      \* codec: the struct type that is encoded or decoded
  centity,    \* codec: the value handed to Marshal
  cbytes,     \* codec: the JSON text
  cstage,     \* codec: "idle", "value", "encoded", "failed", "roundtrip",
              \*        "given", "decoded"
  cresult     \* codec: what Unmarshal returned

exchVars == <<build, args, portOwner, mainPc, exitCode, stdout, logged, srvPc,
              cliPc, cliJson, cliConn, cliResp, conns, posts>>
codecVars == <<ctype, centity, cbytes, cstage, cresult>>
vars == <<build, args, portOwner, mainPc, exitCode, stdout, logged, srvPc,
          cliPc, cliJson, cliConn, cliResp, conns, posts,
          ctype, centity, cbytes, cstage, cresult>>

\* Bounds of the model: the requests our server accepts in one run, the
\* members of a generated JSON object, the length of a generated forecast.
MaxConns == 2
MaxMembers == 2
MaxForecast == 2

(***************************************************************************)
(* Inputs                                                                  *)
(***************************************************************************)
ArgsSet == { <<>>, <<"server">>, <<"client">>, <<"help">> }
\* The demo is started as `go run json.go` (src/json.go:445).
DemoArgs == { <<>> }

\* 35.14326 and -116.104, src/json.go:395
ClientLat == Fin(3514326, 5)
ClientLon == Fin(-116104, 3)

\* {"lat": 35.14326, "lon": -116.104}
BodySpec ==
  << LBrace, StrTok(n_lat), Colon, NumTok(3514326, 5), Comma,
     StrTok(n_lon), Colon, NumTok(-116104, 3), RBrace >>
\* {"lat": 16777217, "extra": true}: 2^24 + 1 is not a float32
BodyExtra ==
  << LBrace, StrTok(n_lat), Colon, NumTok(16777217, 0), Comma,
     StrTok(<<"e","x","t","r","a">>), Colon, TrueTok, RBrace >>
\* {"lat": "not-a-number"}
BodyMismatch ==
  << LBrace, StrTok(n_lat), Colon,
     StrTok(<<"n","o","t","-","a","-","n","u","m","b","e","r">>), RBrace >>
\* {"lat": 35.14326      (cut short)
BodyCut == << LBrace, StrTok(n_lat), Colon, NumTok(3514326, 5) >>
BodyEmpty == << >>

\* {"Lat": 35.14326, "Lon": -116.104}: what client() of this repository sends
BodyClient ==
  << LBrace, StrTok(g_Lat), Colon, NumTok(3514326, 5), Comma,
     StrTok(g_Lon), Colon, NumTok(-116104, 3), RBrace >>

Bodies == {BodySpec, BodyClient, BodyExtra, BodyMismatch, BodyCut, BodyEmpty}

\* A request of another HTTP client: its body, and whether reading the body
\* fails on the server (the sender breaks off).
EnvRequests ==
  {[body |-> b, readErr |-> FALSE] : b \in Bodies}
    \cup {[body |-> BodySpec, readErr |-> TRUE]}

\* What a foreign server on the port may answer.
Statuses == {200, 404, 500}
ForeignBodies == { <<>>, << LBrace, RBrace >> }

(***************************************************************************)
(* http.ResponseWriter                                                     *)
(***************************************************************************)
NoResp == [status |-> 0, ctype |-> "", body |-> <<>>]

\* http.DetectContentType of what the handler can write.
DetectContentType(data) == "text/plain; charset=utf-8"

\* w.Write(data): the first write sends status 200 and the headers as they
\* are at that moment; a Content-Type that is not set is detected from data.
Write(resp, hdr, data) ==
  IF resp.status = 0
  THEN [status |-> 200,
        ctype |-> IF hdr # "" THEN hdr ELSE DetectContentType(data),
        body |-> data]
  ELSE [resp EXCEPT !.body = @ \o data]

\* What the server sends when the handler returns.
finishRequest(resp, hdr) ==
  IF resp.status = 0 THEN [status |-> 200, ctype |-> hdr, body |-> <<>>]
  ELSE resp

\* fmt.Fprintf(w, "Error: %s", err)
ErrorText(err) == << [t |-> "text", s |-> <<"Error: ", err>>] >>

NewConn(src, body, readErr) ==
  [src |-> src, body |-> body, readErr |-> readErr, pc |-> "read",
   jsn |-> <<>>, location |-> Zero("loc"), weather |-> Zero("weatherData"),
   weatherJson |-> <<>>, err |-> NoErr, hdr |-> "", resp |-> NoResp,
   delivered |-> FALSE]

Alive == mainPc # "exited"

\* os.Exit(code), or main returning: the process and all its goroutines
\* stop, and its listener is gone.
Exit(code) ==
  /\ mainPc' = "exited"
  /\ exitCode' = code
  /\ portOwner' = IF portOwner = "ours" THEN "free" ELSE portOwner

\* log.Fatal(msg, ...) is log.Output followed by os.Exit(1).  Fatal is the
\* first of the two steps: the line is written.  The goroutine then stands
\* before os.Exit(1) (pc "fatal") while the others go on.
Fatal(msg) == logged' = logged \cup {msg}

\* The loc type of the build.
LocType == IF build = "cli" THEN "locPart000" ELSE "loc"

(***************************************************************************)
(* main                                                                    *)
(***************************************************************************)
UsageText == [kind |-> "usage", body |-> <<>>]

\* A variant of the usage test that looks only at the number of arguments.
BadUsage_CountOnly == Len(args) < 1

\* len(os.Args) < 2 || (os.Args[1] != "server" && os.Args[1] != "client")
BadUsage ==
  IF Len(args) < 1 THEN TRUE ELSE args[1] # "server" /\ args[1] # "client"

\* src/unnamed/part_000:209-215
MainUsage ==
  /\ build = "cli" /\ mainPc = "start"
  /\ BadUsage
  /\ stdout' = Append(stdout, UsageText)
  /\ Exit(1)
  /\ UNCHANGED <<build, args, logged, srvPc, cliPc, cliJson, cliConn, cliResp,
                 conns, posts, codecVars>>

\* src/unnamed/part_000:216-217
MainServer ==
  /\ build = "cli" /\ mainPc = "start"
  /\ ~BadUsage
  /\ args[1] = "server"
  /\ mainPc' = "server"
  /\ srvPc' = "start"
  /\ UNCHANGED <<build, args, portOwner, exitCode, stdout, logged, cliPc,
                 cliJson, cliConn, cliResp, conns, posts, codecVars>>

\* src/unnamed/part_000:218-219
MainClient ==
  /\ build = "cli" /\ mainPc = "start"
  /\ ~BadUsage
  /\ args[1] # "server"
  /\ mainPc' = "client"
  /\ cliPc' = "marshal"
  /\ UNCHANGED <<build, args, portOwner, exitCode, stdout, logged, srvPc,
                 cliJson, cliConn, cliResp, conns, posts, codecVars>>

\* src/json.go:416-418: go server(); client()
MainDemo ==
  /\ build = "demo" /\ mainPc = "start"
  /\ mainPc' = "client"
  /\ srvPc' = "start"
  /\ cliPc' = "marshal"
  /\ UNCHANGED <<build, args, portOwner, exitCode, stdout, logged,
                 cliJson, cliConn, cliResp, conns, posts, codecVars>>

\* main returns once the function it called returned: the process ends
\* with status 0.
MainReturn ==
  /\ \/ mainPc = "server" /\ srvPc = "returned"
     \/ mainPc = "client" /\ cliPc = "returned"
  /\ Exit(0)
  /\ UNCHANGED <<build, args, stdout, logged, srvPc, cliPc, cliJson, cliConn,
                 cliResp, conns, posts, codecVars>>

(***************************************************************************)
(* server                                                                  *)
(***************************************************************************)
\* src/json.go:387-390: HandleFunc, then ListenAndServe binds :8080 and
\* serves until the process ends; when the port is taken it returns an
\* error, which server() drops.
ServerListen ==
  /\ Alive /\ srvPc = "start"
  /\ IF portOwner = "free"
     THEN portOwner' = "ours" /\ srvPc' = "serving"
     ELSE portOwner' = portOwner /\ srvPc' = "returned"
  /\ UNCHANGED <<build, args, mainPc, exitCode, stdout, logged, cliPc,
                 cliJson, cliConn, cliResp, conns, posts, codecVars>>

\* Another HTTP client sends a request to our server.  In the demo one of
\* the MaxConns requests is the one of our own client, sent or not.
EnvPost(req) ==
  /\ Alive /\ srvPc = "serving" /\ portOwner = "ours"
  /\ Len(conns) + (IF build = "demo" /\ cliConn <= 0 THEN 1 ELSE 0) < MaxConns
  /\ posts' = posts + 1
  /\ conns' = Append(conns, NewConn("env", req.body, req.readErr))
  /\ UNCHANGED <<build, args, portOwner, mainPc, exitCode, stdout, logged,
                 srvPc, cliPc, cliJson, cliConn, cliResp, codecVars>>

Handling(i, pc) == Alive /\ i \in 1..Len(conns) /\ conns[i].pc = pc

\* src/json.go:345-348.  ioutil.ReadAll returns what it read together with
\* the error: when the read fails, jsn holds the part of the body that had
\* arrived, any prefix of it up to all of it.
HReadAll(i) ==
  /\ Handling(i, "read")
  /\ IF conns[i].readErr
     THEN /\ Fatal("Error reading the body")
          /\ \E n \in 0..Len(conns[i].body) :
                conns' = [conns EXCEPT ![i].jsn = SubSeq(conns[i].body, 1, n),
                                       ![i].err = "ReadError",
                                       ![i].pc = "fatal"]
          /\ UNCHANGED <<mainPc, exitCode, portOwner>>
     ELSE /\ conns' = [conns EXCEPT ![i].jsn = conns[i].body,
                                    ![i].pc = "decode"]
          /\ UNCHANGED <<mainPc, exitCode, portOwner, logged>>
  /\ UNCHANGED <<build, args, stdout, srvPc, cliPc, cliJson, cliConn, cliResp,
                 posts, codecVars>>

\* A variant of the decoding step that logs the error (log.Printf in place
\* of log.Fatal) and goes on with what was decoded.
HUnmarshal_LogOnly(i) ==
  /\ Handling(i, "decode")
  /\ conns' = [conns EXCEPT
                 ![i].err = Unmarshal(LocType, conns[i].jsn).err,
                 ![i].location = Unmarshal(LocType, conns[i].jsn).val,
                 ![i].pc = "build"]
  /\ logged' = IF Unmarshal(LocType, conns[i].jsn).err # NoErr
               THEN logged \cup {"Decoding error: "}
               ELSE logged
  /\ UNCHANGED <<build, args, portOwner, mainPc, exitCode, stdout, srvPc,
                 cliPc, cliJson, cliConn, cliResp, posts, codecVars>>

\* src/json.go:350-353
HUnmarshal(i) ==
  /\ Handling(i, "decode")
  /\ \E r \in {Unmarshal(LocType, conns[i].jsn)} :
        IF r.err # NoErr
        THEN /\ Fatal("Decoding error: ")
             /\ conns' = [conns EXCEPT ![i].err = r.err,
                                       ![i].location = r.val,
                                       ![i].pc = "fatal"]
             /\ UNCHANGED <<mainPc, exitCode, portOwner>>
        ELSE /\ conns' = [conns EXCEPT ![i].location = r.val,
                                       ![i].pc = "build"]
             /\ UNCHANGED <<mainPc, exitCode, portOwner, logged>>
  /\ UNCHANGED <<build, args, stdout, srvPc, cliPc, cliJson, cliConn, cliResp,
                 posts, codecVars>>

\* The second step of log.Fatal in the handler, src/json.go:347 and 352:
\* os.Exit(1).
HFatalExit(i) ==
  /\ Handling(i, "fatal")
  /\ Exit(1)
  /\ UNCHANGED <<build, args, stdout, logged, srvPc, cliPc, cliJson, cliConn,
                 cliResp, conns, posts, codecVars>>

\* Variants of the report: one with other weather, one that puts the
\* latitude of the request into the temperature.
MockWeather_Sunny(location) ==
  [LocationName |-> <<"Z","z","y","z","x">>,
   Weather      |-> <<"s","u","n","n","y">>,
   Temperature  |-> 31,
   Celsius      |-> TRUE,
   TempForecast |-> Slice(<<30, 32, 29>>),
   Wind         |-> [Direction |-> <<"S">>, Speed |-> 20]]
MockWeather_Echo(location) ==
  [LocationName |-> <<"Z","z","y","z","x">>,
   Weather      |-> <<"c","l","o","u","d","y">>,
   Temperature  |-> location.Lat.m,
   Celsius      |-> TRUE,
   TempForecast |-> Slice(<<30, 32, 29>>),
   Wind         |-> [Direction |-> <<"S">>, Speed |-> 20]]

\* src/json.go:361-371
MockWeather(location) ==
  [LocationName |-> <<"Z","z","y","z","x">>,
   Weather      |-> <<"c","l","o","u","d","y">>,
   Temperature  |-> 31,
   Celsius      |-> TRUE,
   TempForecast |-> Slice(<<30, 32, 29>>),
   Wind         |-> [Direction |-> <<"S">>, Speed |-> 20]]

\* src/json.go:356-371
HBuild(i) ==
  /\ Handling(i, "build")
  /\ logged' = logged \cup {"Received: "}
  /\ conns' = [conns EXCEPT ![i].weather = MockWeather(conns[i].location),
                            ![i].pc = "encode"]
  /\ UNCHANGED <<build, args, portOwner, mainPc, exitCode, stdout, srvPc,
                 cliPc, cliJson, cliConn, cliResp, posts, codecVars>>

\* src/json.go:375-377 (src/unnamed/part_000:164-167 also dumps the
\* bytes): what the handler does with the result m of json.Marshal.  On an
\* error it writes the error text into the response and goes on.
HEncode(i, m) ==
  /\ Handling(i, "encode")
  /\ conns' = [conns EXCEPT
                 ![i].weatherJson = m.data,
                 ![i].err = m.err,
                 ![i].resp = IF m.err # NoErr
                             THEN Write(@, conns[i].hdr, ErrorText(m.err))
                             ELSE @,
                 ![i].pc = "header"]
  /\ stdout' = IF build = "cli"
               THEN Append(stdout, [kind |-> "dump", body |-> m.data])
               ELSE stdout
  /\ UNCHANGED <<build, args, portOwner, mainPc, exitCode, logged, srvPc,
                 cliPc, cliJson, cliConn, cliResp, posts, codecVars>>

\* src/json.go:374-377
HMarshal(i) ==
  \E m \in {Marshal("weatherData", conns[i].weather)} : HEncode(i, m)

\* src/json.go:379
HSetHeader(i) ==
  /\ Handling(i, "header")
  /\ conns' = [conns EXCEPT ![i].hdr = "application/json", ![i].pc = "write"]
  /\ UNCHANGED <<build, args, portOwner, mainPc, exitCode, stdout, logged,
                 srvPc, cliPc, cliJson, cliConn, cliResp, posts, codecVars>>

\* src/json.go:382
HWrite(i) ==
  /\ Handling(i, "write")
  /\ conns' = [conns EXCEPT
                 ![i].resp = Write(@, conns[i].hdr, conns[i].weatherJson),
                 ![i].pc = "return"]
  /\ UNCHANGED <<build, args, portOwner, mainPc, exitCode, stdout, logged,
                 srvPc, cliPc, cliJson, cliConn, cliResp, posts, codecVars>>

\* src/json.go:384: the handler returns and the server sends the response.
HReturn(i) ==
  /\ Handling(i, "return")
  /\ conns' = [conns EXCEPT
                 ![i].resp = finishRequest(@, conns[i].hdr),
                 ![i].delivered = TRUE,
                 ![i].pc = "done"]
  /\ UNCHANGED <<build, args, portOwner, mainPc, exitCode, stdout, logged,
                 srvPc, cliPc, cliJson, cliConn, cliResp, posts, codecVars>>

(***************************************************************************)
(* client                                                                  *)
(***************************************************************************)
\* src/json.go:395 (src/unnamed/part_000:185-186 also dumps the bytes);
\* the error of Marshal is not looked at.
ClientMarshal ==
  /\ Alive /\ cliPc = "marshal"
  /\ \E m \in {Marshal(LocType, [Lat |-> ClientLat, Lon |-> ClientLon])} :
        /\ cliJson' = m.data
        /\ stdout' = IF build = "cli"
                     THEN Append(stdout, [kind |-> "dump", body |-> m.data])
                     ELSE stdout
  /\ cliPc' = "do"
  /\ UNCHANGED <<build, args, portOwner, mainPc, exitCode, logged, srvPc,
                 cliConn, cliResp, conns, posts, codecVars>>

\* A variant of the client in which a request sent while nobody listens is
\* not refused but waits for the server.
ClientDo_Queued ==
  /\ Alive /\ cliPc = "do"
  /\ \/ /\ portOwner \in {"free", "ours"}
        /\ conns' = Append(conns, NewConn("client", cliJson, FALSE))
        /\ cliConn' = Len(conns) + 1
        /\ cliPc' = "wait"
        /\ UNCHANGED <<mainPc, exitCode, portOwner, logged>>
     \/ /\ portOwner = "foreign"
        /\ cliConn' = -1
        /\ cliPc' = "wait"
        /\ UNCHANGED <<mainPc, exitCode, portOwner, logged, conns>>
  /\ UNCHANGED <<build, args, stdout, srvPc, cliJson, cliResp, posts,
                 codecVars>>

\* src/json.go:397-402: the request is built and client.Do connects to
\* localhost:8080.  Nobody listening at that moment: the connection is
\* refused, and client.Do is about to return the error.
ClientDo ==
  /\ Alive /\ cliPc = "do"
  /\ \/ /\ portOwner = "free"
        /\ cliConn' = -2
        /\ cliPc' = "wait"
        /\ UNCHANGED <<mainPc, exitCode, portOwner, logged, conns>>
     \/ /\ portOwner = "ours"
        /\ conns' = Append(conns, NewConn("client", cliJson, FALSE))
        /\ cliConn' = Len(conns) + 1
        /\ cliPc' = "wait"
        /\ UNCHANGED <<mainPc, exitCode, portOwner, logged>>
     \/ /\ portOwner = "foreign"
        /\ cliConn' = -1
        /\ cliPc' = "wait"
        /\ UNCHANGED <<mainPc, exitCode, portOwner, logged, conns>>
  /\ UNCHANGED <<build, args, stdout, srvPc, cliJson, cliResp, posts,
                 codecVars>>

\* A variant of the client that logs a failed client.Do (log.Println in
\* place of log.Fatal) and goes on to print.
ClientDoReturn_LogOnly ==
  /\ Alive /\ cliPc = "wait"
  /\ \/ /\ cliConn > 0 /\ conns[cliConn].delivered
        /\ cliResp' = conns[cliConn].resp
        /\ cliPc' = "print"
        /\ UNCHANGED <<mainPc, exitCode, portOwner, logged>>
     \/ /\ cliConn = -1
        /\ \E st \in Statuses, b \in ForeignBodies :
             cliResp' = [status |-> st, ctype |-> "application/json", body |-> b]
        /\ cliPc' = "print"
        /\ UNCHANGED <<mainPc, exitCode, portOwner, logged>>
     \/ /\ cliConn \in {-1, -2}
        /\ logged' = logged \cup {"client: "}
        /\ cliPc' = "print"
        /\ UNCHANGED <<mainPc, exitCode, portOwner, cliResp>>
  /\ UNCHANGED <<build, args, stdout, srvPc, cliJson, cliConn, conns, posts,
                 codecVars>>

\* src/json.go:402-405: client.Do returns: the response of the server, or
\* an error when the connection was refused or broke; on an error
\* log.Fatal writes its line.
ClientDoReturn ==
  /\ Alive /\ cliPc = "wait"
  /\ \/ /\ cliConn > 0 /\ conns[cliConn].delivered
        /\ cliResp' = conns[cliConn].resp
        /\ cliPc' = "print"
        /\ UNCHANGED <<mainPc, exitCode, portOwner, logged>>
     \/ /\ cliConn = -1
        /\ \E st \in Statuses, b \in ForeignBodies :
             cliResp' = [status |-> st, ctype |-> "application/json", body |-> b]
        /\ cliPc' = "print"
        /\ UNCHANGED <<mainPc, exitCode, portOwner, logged>>
     \/ /\ cliConn \in {-1, -2}
        /\ Fatal("client: ")
        /\ cliPc' = "fatal"
        /\ UNCHANGED <<mainPc, exitCode, portOwner, cliResp>>
  /\ UNCHANGED <<build, args, stdout, srvPc, cliJson, cliConn, conns, posts,
                 codecVars>>

\* The second step of log.Fatal in the client, src/json.go:404: os.Exit(1).
ClientFatalExit ==
  /\ Alive /\ cliPc = "fatal"
  /\ Exit(1)
  /\ UNCHANGED <<build, args, stdout, logged, srvPc, cliPc, cliJson, cliConn,
                 cliResp, conns, posts, codecVars>>

\* src/json.go:406-409: the body is read and printed, whatever the status.
ClientPrint ==
  /\ Alive /\ cliPc = "print"
  /\ stdout' = Append(stdout, [kind |-> "Response: ", body |-> cliResp.body])
  /\ cliPc' = "close"
  /\ UNCHANGED <<build, args, portOwner, mainPc, exitCode, logged, srvPc,
                 cliJson, cliConn, cliResp, conns, posts, codecVars>>

\* A variant of the client that sends its request again after closing the
\* response.
ClientClose_Again ==
  /\ Alive /\ cliPc = "close"
  /\ cliPc' = "do"
  /\ UNCHANGED <<build, args, portOwner, mainPc, exitCode, stdout, logged,
                 srvPc, cliJson, cliConn, cliResp, conns, posts, codecVars>>

\* src/json.go:410-411
ClientClose ==
  /\ Alive /\ cliPc = "close"
  /\ cliPc' = "returned"
  /\ UNCHANGED <<build, args, portOwner, mainPc, exitCode, stdout, logged,
                 srvPc, cliJson, cliConn, cliResp, conns, posts, codecVars>>

(***************************************************************************)
(* The specification of the exchange                                       *)
(***************************************************************************)
CodecIdle ==
  /\ ctype = "loc"
  /\ centity = Zero("loc")
  /\ cbytes = <<>>
  /\ cstage = "idle"
  /\ cresult = [err |-> NoErr, val |-> Zero("loc")]

ExchStart ==
  /\ mainPc = "start"
  /\ exitCode = -1
  /\ stdout = <<>>
  /\ logged = {}
  /\ srvPc = "idle"
  /\ cliPc = "idle"
  /\ cliJson = <<>>
  /\ cliConn = 0
  /\ cliResp = NoResp
  /\ conns = <<>>
  /\ posts = 0

Init ==
  /\ \/ build = "cli" /\ args \in ArgsSet
     \/ build = "demo" /\ args \in DemoArgs
  /\ portOwner \in {"free", "foreign"}
  /\ ExchStart
  /\ CodecIdle

Next ==
  \/ MainUsage
  \/ MainServer
  \/ MainClient
  \/ MainDemo
  \/ MainReturn
  \/ ServerListen
  \/ \E req \in EnvRequests : EnvPost(req)
  \/ \E i \in 1..Len(conns) : HReadAll(i)
  \/ \E i \in 1..Len(conns) : HUnmarshal(i)
  \/ \E i \in 1..Len(conns) : HFatalExit(i)
  \/ \E i \in 1..Len(conns) : HBuild(i)
  \/ \E i \in 1..Len(conns) : HMarshal(i)
  \/ \E i \in 1..Len(conns) : HSetHeader(i)
  \/ \E i \in 1..Len(conns) : HWrite(i)
  \/ \E i \in 1..Len(conns) : HReturn(i)
  \/ ClientMarshal
  \/ ClientDo
  \/ ClientDoReturn
  \/ ClientFatalExit
  \/ ClientPrint
  \/ ClientClose

Spec == Init /\ [][Next]_vars

(***************************************************************************)
(* The codec on its own: a value is marshalled and the bytes unmarshalled  *)
(* again, or given bytes are unmarshalled.                                 *)
(*   cstage: "value" -> "encoded" -> "roundtrip"    ("failed": no bytes)   *)
(*           "given" -> "decoded"                                          *)
(***************************************************************************)
StrVals == { <<>>, <<"S">>, <<"xFF">> }
IntVals == { 0, 31, -5 }
ForecastInts == { 29, 30 }
FloatVals == { Fin(0, 0), NegZero, ClientLat, ClientLon, NaN, PosInf }

RECURSIVE SeqsUpTo(_, _)
SeqsUpTo(S, n) ==
  IF n = 0 THEN { <<>> }
  ELSE SeqsUpTo(S, n - 1)
         \cup { Append(q, x) : q \in SeqsUpTo(S, n - 1), x \in S }

SliceVals == {NilSlice} \cup { Slice(q) : q \in SeqsUpTo(ForecastInts, MaxForecast) }

WindVals == [Direction : StrVals, Speed : IntVals]
WeatherVals ==
  [LocationName : StrVals, Weather : {<<>>, <<"S">>},
   Temperature : IntVals, Celsius : BOOLEAN,
   TempForecast : SliceVals, Wind : WindVals]
LocVals == [Lat : FloatVals, Lon : FloatVals]
DraftWeatherVals ==
  [locationName : {<<>>, <<"S">>}, weather : {<<>>, <<"S">>},
   temperature : {0, 31}, celsius : BOOLEAN,
   tempForecast : {NilSlice, Slice(<<30, 32, 29>>)},
   wind : [direction : {<<>>, <<"S">>}, speed : {0, 20}]]

ValuesOf(T) ==
  CASE T = "weatherData"      -> WeatherVals
    [] T = "windData"         -> WindVals
    [] T = "loc"              -> LocVals
    [] T = "locPart000"       -> LocVals
    [] T = "draftWeatherData" -> DraftWeatherVals

CodecTypes == {"weatherData", "windData", "loc", "locPart000", "draftWeatherData"}

\* Generated JSON objects: up to MaxMembers members "key": value.
k_extra == <<"e","x","t","r","a">>
v_sunny == <<"s","u","n","n","y">>
DocKeys == { n_lat, n_lon, n_weather, n_temp_forecast, g_TempForecast, k_extra }
DocValues ==
  { <<NumTok(3514326, 5)>>, <<NumTok(31, 0)>>, <<StrTok(v_sunny)>>,
    <<TrueTok>>, <<NullTok>>,
    <<LBracket, NumTok(30, 0), Comma, NumTok(32, 0), Comma, NumTok(29, 0),
      RBracket>> }

DocMembers == { <<StrTok(k), Colon>> \o v : k \in DocKeys, v \in DocValues }

RECURSIVE JoinMembers(_, _)
JoinMembers(ms, i) ==
  IF i > Len(ms) THEN <<>>
  ELSE (IF i > 1 THEN <<Comma>> ELSE <<>>) \o ms[i] \o JoinMembers(ms, i + 1)

ObjectDocs ==
  { <<LBrace>> \o JoinMembers(ms, 1) \o <<RBrace>> :
      ms \in SeqsUpTo(DocMembers, MaxMembers) }

\* The documents the spec names, inputs that are not objects, and
\* {"lat": -0, "lon": 1.234567891},
\* {"TempForecast": [30,32,29], "TempForecast": [null]} and
\* {"weather": "\xff"}.
NamedDocs ==
  { BodySpec, BodyExtra, BodyMismatch, <<NullTok>>,
    <<LBrace, StrTok(n_lat), Colon, NegZeroTok, Comma,
      StrTok(n_lon), Colon, NumTok(123456789, 8), RBrace>>,
    <<LBrace, StrTok(g_TempForecast), Colon,
      LBracket, NumTok(30, 0), Comma, NumTok(32, 0), Comma, NumTok(29, 0),
      RBracket, Comma,
      StrTok(g_TempForecast), Colon, LBracket, NullTok, RBracket, RBrace>>,
    <<LBrace, StrTok(n_weather), Colon, StrTok(<<"xFF">>), RBrace>>,
    <<LBracket, NumTok(1, 0), RBracket>>,
    <<LBrace, StrTok(n_wind), Colon, LBrace, StrTok(n_direction), Colon,
      StrTok(<<"S">>), Comma, StrTok(n_speed), Colon, NumTok(20, 0),
      RBrace, RBrace>> }

\* Text that is cut short, or has a token too many.
Prefixes(d) == { SubSeq(d, 1, n) : n \in 0..(Len(d) - 1) }
BrokenDocs ==
  UNION { Prefixes(d) : d \in NamedDocs \ {<<NullTok>>} }
    \cup { d \o <<RBrace>> : d \in NamedDocs }

Docs == ObjectDocs \cup NamedDocs \cup BrokenDocs

CodecInit ==
  /\ build = "demo" /\ args = <<>> /\ portOwner = "free"
  /\ ExchStart
  /\ ctype \in CodecTypes
  /\ cresult = [err |-> NoErr, val |-> Zero(ctype)]
  /\ \/ /\ cstage = "value"
        /\ centity \in ValuesOf(ctype)
        /\ cbytes = <<>>
     \/ /\ cstage = "given"
        /\ ctype \in {"weatherData", "loc", "draftWeatherData"}
        /\ centity = Zero(ctype)
        /\ cbytes \in Docs

\* The marshal call of the type under test: the draft goes through encode.
MarshalOf(T, v) == IF T = "draftWeatherData" THEN encode(v) ELSE Marshal(T, v)
UnmarshalOf(T, data) ==
  IF T = "draftWeatherData" THEN decode(data) ELSE Unmarshal(T, data)

CodecEncoded(m) ==
  /\ cstage' = IF m.err # NoErr THEN "failed" ELSE "encoded"
  /\ cbytes' = m.data
  /\ cresult' = [cresult EXCEPT !.err = m.err]

CodecMarshal ==
  /\ cstage = "value"
  /\ CodecEncoded(MarshalOf(ctype, centity))
  /\ UNCHANGED <<exchVars, ctype, centity>>

CodecUnmarshal ==
  /\ cstage \in {"encoded", "given"}
  /\ cresult' = UnmarshalOf(ctype, cbytes)
  /\ cstage' = IF cstage = "encoded" THEN "roundtrip" ELSE "decoded"
  /\ UNCHANGED <<exchVars, ctype, centity, cbytes>>

CodecNext == CodecMarshal \/ CodecUnmarshal

CodecSpec == CodecInit /\ [][CodecNext]_vars

(***************************************************************************)
(* Reading the wire, for the properties below                              *)
(***************************************************************************)
\* The parsed document (only used where checkValid holds).
TreeOf(d) == ParseValue(d, 1).v

IsObjectDoc(d) == checkValid(d) /\ TreeOf(d).t = "obj"

\* The keys of an object, and the values stored under a key spelled
\* exactly so.
KeysOf(obj) == { obj.mem[i].k : i \in 1..Len(obj.mem) }
ValuesAt(obj, key) == { obj.mem[i].v : i \in {j \in 1..Len(obj.mem) : obj.mem[j].k = key} }
DistinctKeys(obj) == Cardinality(KeysOf(obj)) = Len(obj.mem)

\* The spec's mapping between wire keys and fields (spec section 3).
WireSchema ==
  { [key |-> n_locationName,  go |-> "LocationName", type |-> "string"],
    [key |-> n_weather,       go |-> "Weather",      type |-> "string"],
    [key |-> n_temperature,   go |-> "Temperature",  type |-> "int"],
    [key |-> n_celsius,       go |-> "Celsius",      type |-> "bool"],
    [key |-> n_temp_forecast, go |-> "TempForecast", type |-> "[]int"],
    [key |-> n_wind,          go |-> "Wind",         type |-> "windData"] }
WindSchema ==
  { [key |-> n_direction, go |-> "Direction", type |-> "string"],
    [key |-> n_speed,     go |-> "Speed",     type |-> "int"] }
LocSchema ==
  { [key |-> n_lat, go |-> "Lat", type |-> "float32"],
    [key |-> n_lon, go |-> "Lon", type |-> "float32"] }

\* A JSON value of the type the field expects, and the field value it gives.
IsIntLit(v) == v.t = "num" /\ v.e = 0
WellTypedFlat(type, v) ==
  CASE type = "string"  -> v.t = "str"
    [] type = "int"     -> IsIntLit(v)
    [] type = "bool"    -> v.t \in {"true", "false"}
    [] type = "float32" -> v.t = "num"
    [] type = "[]int"   -> v.t = "arr" /\ \A i \in 1..Len(v.el) : IsIntLit(v.el[i])
    [] OTHER            -> FALSE
WellTyped(type, v) ==
  IF type = "windData"
  THEN /\ v.t = "obj" /\ DistinctKeys(v)
       /\ \A f \in WindSchema : \A x \in ValuesAt(v, f.key) : WellTypedFlat(f.type, x)
  ELSE WellTypedFlat(type, v)

\* The value a JSON literal denotes; a string denotes text, in which a byte
\* that is no UTF-8 reads as U+FFFD.
GivenFlat(type, v) ==
  CASE type = "string"  -> coerceUTF8(v.s)
    [] type = "int"     -> v.m
    [] type = "bool"    -> (v.t = "true")
    [] type = "[]int"   -> [i \in 1..Len(v.el) |-> v.el[i].m]
ZeroFlat(type) ==
  CASE type = "string"  -> <<>>
    [] type = "int"     -> 0
    [] type = "bool"    -> FALSE
    [] type = "[]int"   -> <<>>
\* What a decoded field holds, without the nil/empty distinction of slices.
HeldFlat(type, x) == IF type = "[]int" THEN x.el ELSE x

\* Field f of the decoded struct val agrees with the object obj: the given
\* value when the key is present, the zero value when it is absent.
FieldAgrees(f, obj, val) ==
  IF ValuesAt(obj, f.key) = {}
  THEN HeldFlat(f.type, val[f.go]) = ZeroFlat(f.type)
  ELSE \A x \in ValuesAt(obj, f.key) : HeldFlat(f.type, val[f.go]) = GivenFlat(f.type, x)

WindAgrees(obj, val) ==
  IF ValuesAt(obj, n_wind) = {}
  THEN val.Wind = [Direction |-> <<>>, Speed |-> 0]
  ELSE \A w \in ValuesAt(obj, n_wind) :
         \A f \in WindSchema : FieldAgrees(f, w, val.Wind)

\* Every key of the object is a known wire key or the unknown key "extra",
\* and every known wire key is absent or well typed.
Conforms(schema, obj) ==
  /\ DistinctKeys(obj)
  /\ KeysOf(obj) \subseteq { f.key : f \in schema } \cup {k_extra}
  /\ \A f \in schema : \A x \in ValuesAt(obj, f.key) : WellTyped(f.type, x)

\* Some known wire key carries a value that is not of the field's type
\* (null is left out: it is accepted and leaves the field as it is).
Uncoercible(schema, obj) ==
  \E f \in schema : \E x \in ValuesAt(obj, f.key) :
     x.t # "null" /\ ~WellTyped(f.type, x)

ValidText(s) == \A i \in 1..Len(s) : s[i] # "xFF"
Finite(x) == x.c = "fin"

\* {"lat": a, "lon": b}
LatLonDoc(a, b) ==
  << LBrace, StrTok(n_lat), Colon, NumTok(a.m, a.e), Comma,
     StrTok(n_lon), Colon, NumTok(b.m, b.e), RBrace >>
\* {"weather": "sunny"}
SunnyDoc == << LBrace, StrTok(n_weather), Colon, StrTok(v_sunny), RBrace >>

(***************************************************************************)
(* The codec properties                                                    *)
(***************************************************************************)
\* C1 -- Round trip: for every WeatherReport, Location and WindInfo value,
\* encoding succeeds, and decoding the bytes succeeds and gives back the
\* value field by field (the forecast in its order).
C1_RoundTrip ==
  /\ cstage # "failed"
  /\ cstage = "roundtrip" => cresult.err = NoErr /\ cresult.val = centity

\* What does hold of the published structs (src/json.go:312-333): values
\* whose strings are valid UTF-8 and whose floats are finite round-trip.
RoundTripPublished ==
  (cstage = "roundtrip" /\ ctype \in {"weatherData", "windData", "loc", "locPart000"})
    => \/ cresult.err = NoErr /\ cresult.val = centity
       \/ ctype = "weatherData"
            /\ ~(ValidText(centity.LocationName) /\ ValidText(centity.Weather)
                  /\ ValidText(centity.Wind.Direction))
       \/ ctype = "windData" /\ ~ValidText(centity.Direction)

\* C2 -- Field names of Location: encoding Location{a, b} emits a under the
\* wire key "lat" and b under the wire key "lon", and decoding
\* {"lat": a, "lon": b} gives latitude a and longitude b.
C2_LocationFieldNames ==
  /\ (ctype \in {"loc", "locPart000"} /\ cstage = "encoded")
       => /\ IsObjectDoc(cbytes)
          /\ ValuesAt(TreeOf(cbytes), n_lat) = {NumTok(centity.Lat.m, centity.Lat.e)}
          /\ ValuesAt(TreeOf(cbytes), n_lon) = {NumTok(centity.Lon.m, centity.Lon.e)}
  /\ (ctype \in {"loc", "locPart000"} /\ cstage = "decoded")
       => \A a, b \in {ClientLat, ClientLon, Fin(31, 0)} :
            cbytes = LatLonDoc(a, b)
              => cresult.err = NoErr /\ cresult.val = [Lat |-> a, Lon |-> b]

\* The decoding half of C2 alone, which holds in both versions of loc.
LocationDecodesByWireKeys ==
  (ctype \in {"loc", "locPart000"} /\ cstage = "decoded")
    => \A a, b \in {ClientLat, ClientLon, Fin(31, 0)} :
         cbytes = LatLonDoc(a, b)
           => cresult.err = NoErr /\ cresult.val = [Lat |-> a, Lon |-> b]

\* C3 -- Encoding a WeatherReport gives an object whose keys are exactly
\* locationName, weather, temperature, celsius, temp_forecast and wind, with
\* wind a nested object with exactly the keys direction and speed and the
\* forecast an array.
C3_WireKeys ==
  (ctype = "weatherData" /\ cstage = "encoded")
    => /\ IsObjectDoc(cbytes)
       /\ DistinctKeys(TreeOf(cbytes))
       /\ KeysOf(TreeOf(cbytes)) = { f.key : f \in WireSchema }
       /\ \A w \in ValuesAt(TreeOf(cbytes), n_wind) :
            /\ w.t = "obj"
            /\ DistinctKeys(w)
            /\ KeysOf(w) = { f.key : f \in WindSchema }
       /\ \A a \in ValuesAt(TreeOf(cbytes), n_temp_forecast) : a.t = "arr"

\* C4 -- Missing-key tolerance: decoding an object in which every known
\* wire key is absent or well typed succeeds; an absent key leaves the zero
\* value, a present key gives its value.  In particular {"weather":
\* "sunny"} gives weather = "sunny" and zero everywhere else.
C4_MissingKeys ==
  /\ (ctype = "weatherData" /\ cstage = "decoded" /\ IsObjectDoc(cbytes))
       => (Conforms(WireSchema, TreeOf(cbytes))
             => /\ cresult.err = NoErr
                /\ \A f \in WireSchema :
                     f.type # "windData" => FieldAgrees(f, TreeOf(cbytes), cresult.val)
                /\ WindAgrees(TreeOf(cbytes), cresult.val))
  /\ (ctype = "draftWeatherData" /\ cstage = "decoded" /\ cbytes = SunnyDoc)
       => cresult.err = NoErr /\ cresult.val.weather = v_sunny

\* C4 without the key temp_forecast, which holds of the published struct.
MissingKeysButForecast ==
  (ctype = "weatherData" /\ cstage = "decoded" /\ IsObjectDoc(cbytes))
    => ((Conforms(WireSchema, TreeOf(cbytes))
          /\ ValuesAt(TreeOf(cbytes), n_temp_forecast) = {})
         => /\ cresult.err = NoErr
            /\ \A f \in WireSchema :
                 f.type # "windData" => FieldAgrees(f, TreeOf(cbytes), cresult.val)
            /\ WindAgrees(TreeOf(cbytes), cresult.val))

\* C5 -- Malformed-input rejection: decoding fails whenever the input is
\* not well-formed JSON or a present known key carries a value that cannot
\* be coerced to the field's type; in particular {"lat": "not-a-number"}
\* fails as a Location.
C5_Rejects ==
  /\ (cstage = "decoded" /\ ~checkValid(cbytes)) => cresult.err # NoErr
  /\ (cstage = "decoded" /\ ctype = "loc" /\ IsObjectDoc(cbytes))
       => (Uncoercible(LocSchema, TreeOf(cbytes)) => cresult.err # NoErr)
  /\ (cstage = "decoded" /\ ctype = "weatherData" /\ IsObjectDoc(cbytes))
       => (Uncoercible(WireSchema, TreeOf(cbytes)) => cresult.err # NoErr)

\* C5 for Location alone, which holds.
LocationRejects ==
  /\ (cstage = "decoded" /\ ~checkValid(cbytes)) => cresult.err # NoErr
  /\ (cstage = "decoded" /\ ctype = "loc" /\ IsObjectDoc(cbytes))
       => (Uncoercible(LocSchema, TreeOf(cbytes)) => cresult.err # NoErr)

(***************************************************************************)
(* The exchange properties                                                 *)
(***************************************************************************)
\* The report the spec expects: Zzyzx, cloudy, 31 Celsius, forecast
\* 30, 32, 29, wind S at 20.
ZzyzxReport ==
  [LocationName |-> <<"Z","z","y","z","x">>,
   Weather      |-> <<"c","l","o","u","d","y">>,
   Temperature  |-> 31,
   Celsius      |-> TRUE,
   TempForecast |-> Slice(<<30, 32, 29>>),
   Wind         |-> [Direction |-> <<"S">>, Speed |-> 20]]

\* The texts of the exchange, decoded once: what json.Unmarshal gives for
\* the request bodies and for the encoded report.  Any other text is
\* decoded where it is met.
RequestBodies ==
  Bodies \cup { Marshal(T, [Lat |-> ClientLat, Lon |-> ClientLon]).data :
                  T \in {"loc", "locPart000"} }
LocationOf ==
  [T \in {"loc", "locPart000"} |-> [b \in RequestBodies |-> Unmarshal(T, b)]]
UnmarshalLoc(T, b) ==
  IF b \in RequestBodies THEN LocationOf[T][b] ELSE Unmarshal(T, b)
ReportText == Marshal("weatherData", ZzyzxReport).data
ReportOf == Unmarshal("weatherData", ReportText)

DecodesTo(body, report) ==
  (IF body = ReportText THEN ReportOf ELSE Unmarshal("weatherData", body))
    = [err |-> NoErr, val |-> report]

Printed(body) ==
  \E k \in 1..Len(stdout) : stdout[k] = [kind |-> "Response: ", body |-> body]

ClientHasPrinted == cliPc \in {"close", "returned"}

\* C6 -- End to end: a POST with the body {"lat": 35.14326, "lon":
\* -116.104} (and the request of the repository's own client) is answered
\* with status 200 and a body that decodes to the Zzyzx report, and the
\* client prints exactly the body of the response it received.
C6_EndToEnd ==
  /\ \A i \in 1..Len(conns) :
       (conns[i].delivered /\ (conns[i].body = BodySpec \/ conns[i].src = "client"))
         => /\ conns[i].resp.status = 200
            /\ DecodesTo(conns[i].resp.body, ZzyzxReport)
  /\ (cliPc \in {"print", "close", "returned"} /\ cliConn > 0)
       => cliResp = conns[cliConn].resp
  /\ ClientHasPrinted => Printed(cliResp.body)

\* The spec's request was answered, and the client of the same process
\* received and printed its response.
C6_Witness ==
  /\ \E i \in 1..Len(conns) :
       conns[i].src = "env" /\ conns[i].body = BodySpec /\ conns[i].delivered
  /\ cliConn > 0 /\ cliPc = "returned"
  /\ Printed(conns[cliConn].resp.body)

\* No role given: no argument, or a first argument that is neither
\* "server" nor "client".
NoRole == IF args = <<>> THEN TRUE ELSE args[1] \notin {"server", "client"}
RoleIs(r) == IF args = <<>> THEN FALSE ELSE args[1] = r

UsageOnly ==
  /\ NoRole
       => /\ srvPc = "idle" /\ cliPc = "idle"
          /\ portOwner # "ours" /\ conns = <<>> /\ cliConn = 0
          /\ mainPc # "start"
               => mainPc = "exited" /\ exitCode > 0 /\ stdout = <<UsageText>>
  /\ srvPc # "idle" => RoleIs("server")
  /\ cliPc # "idle" => RoleIs("client")

\* C7 as the spec states it -- Usage validation: started without a role the
\* program prints the usage message and exits with a non-zero status, no
\* listener is started and no request sent; server() runs only for
\* "server", client() only for "client".
C7_UsageAnyBuild == UsageOnly

\* C7 -- Usage validation of the command-line version
\* (src/unnamed/part_000): the same statement, for that version only.
C7_UsageCli == (build = "cli") => UsageOnly

\* The command-line version was started with an argument that is no role
\* and has exited with the usage message.
C7_Witness ==
  /\ build = "cli" /\ args = <<"help">>
  /\ mainPc = "exited" /\ exitCode = 1 /\ stdout = <<UsageText>>

\* Bodies that do not decode as a Location: a mismatched type, malformed
\* JSON, no body at all.
FailingBodies == {BodyMismatch, BodyCut, BodyEmpty}
FailsToDecode(body) ==
  body \in FailingBodies \/ UnmarshalLoc("loc", body).err # NoErr

\* The handler of request i logged a decoding error and stands before
\* os.Exit(1).
DecodeFailed(i) ==
  conns[i].pc = "fatal" /\ conns[i].err \notin {NoErr, "ReadError"}

\* Nothing of a response to request i exists.
Unanswered(i) ==
  /\ conns[i].resp = NoResp /\ conns[i].hdr = ""
  /\ ~conns[i].delivered

C8_Inv ==
  \A i \in 1..Len(conns) :
     FailsToDecode(conns[i].body)
       => /\ conns[i].pc \in {"read", "decode", "fatal"}
          /\ Unanswered(i)
          /\ DecodeFailed(i)
               => /\ "Decoding error: " \in logged
                  /\ mainPc = "exited"
                       => /\ portOwner # "ours"
                          /\ exitCode = 1 \/ (build = "demo" /\ cliPc = "returned")

\* C8 as the spec states it -- Server fail-fast: for a request whose body
\* fails to decode the server logs the error and terminates before a header
\* or a byte of a response is written; the request is never answered, and
\* from the failure on no later request is served.
C8_FailFast ==
  /\ []C8_Inv
  /\ [][\A i, j \in 1..Len(conns) :
          (DecodeFailed(i) /\ j > i /\ conns'[j].delivered)
            => conns[j].delivered]_vars

\* C8 -- Server fail-fast, for the failing request: the server logs the
\* error, writes no header and no byte of a response to that request and
\* never answers it; the handler's only further step is os.Exit(1), and
\* after the exit no request is accepted or served.  Up to that exit the
\* handlers of other requests go on.
C8_FailFastRequest ==
  /\ []C8_Inv
  /\ [][\A i \in 1..Len(conns) : DecodeFailed(i) => conns'[i] = conns[i]]_vars
  /\ [][mainPc = "exited" => conns' = conns]_vars

\* A decoding failed and the process has exited with status 1 while
\* another request was still being handled.
C8_Witness ==
  \E i, j \in 1..Len(conns) :
     /\ conns[i].body \in FailingBodies /\ DecodeFailed(i)
     /\ j # i /\ conns[j].pc \in {"encode", "header", "write", "return"}
     /\ mainPc = "exited" /\ exitCode = 1

FatalMessages == {"Error reading the body", "Decoding error: ", "client: "}

\* A goroutine that called log.Fatal has logged and stands before
\* os.Exit(1), having written nothing.
ServerErrorsFatal ==
  /\ ("Error reading the body" \in logged)
       => \E i \in 1..Len(conns) :
             conns[i].pc = "fatal" /\ conns[i].err = "ReadError"
  /\ ("Decoding error: " \in logged)
       => \E i \in 1..Len(conns) : DecodeFailed(i)
  /\ \A i \in 1..Len(conns) :
       /\ conns[i].readErr => conns[i].pc \in {"read", "fatal"}
       /\ FailsToDecode(conns[i].body)
            => conns[i].pc \in {"read", "decode", "fatal"}
       /\ conns[i].pc \in {"read", "decode", "fatal"} => Unanswered(i)
       /\ conns[i].pc = "fatal"
            => /\ conns[i].err # NoErr
               /\ logged \cap FatalMessages # {}
       \* an encoding failure: nothing is written after it
       /\ (conns[i].pc \in {"header", "write", "return", "done"}
             /\ conns[i].err # NoErr) => conns[i].resp = NoResp
  /\ (mainPc = "exited" /\ logged \cap FatalMessages # {})
       => exitCode = 1 \/ (build = "demo" /\ cliPc = "returned")

\* A client whose connection was refused or broke has logged the error and
\* stands before os.Exit(1), or client.Do is still about to return the
\* error; it has printed nothing.
ClientFailureFatal ==
  /\ ("client: " \in logged) <=> (cliPc = "fatal")
  /\ cliPc = "fatal" => cliConn \in {-1, -2}
  /\ cliConn = -2 => cliPc \in {"wait", "fatal"}
  /\ (cliPc = "fatal" \/ cliConn = -2)
       => \A k \in 1..Len(stdout) : stdout[k].kind # "Response: "

\* After log.Fatal's line a goroutine does nothing but exit, and after the
\* exit nothing happens.
FatalStep ==
  /\ \A i \in 1..Len(conns) : conns[i].pc = "fatal" => conns'[i] = conns[i]
  /\ cliPc = "fatal" => cliPc' = "fatal"
  /\ (cliConn = -2 /\ cliPc = "wait" /\ cliPc' # cliPc)
       => cliPc' = "fatal" /\ "client: " \in logged'
  /\ mainPc = "exited" => UNCHANGED <<stdout, logged, conns, cliPc, srvPc>>

\* C9 as the spec states it -- Every error is fatal: on a decoding error,
\* an encoding error or a transport error (a failed connection or a non-2xx
\* response) the process logs the error and exits; the server writes no
\* response after an encoding failure, the client prints no response after
\* a transport failure or a non-2xx status.
C9_EveryErrorFatal ==
  /\ ServerErrorsFatal
  /\ ClientFailureFatal
  /\ ClientHasPrinted => cliResp.status \in 200..299

\* C9 -- Errors are fatal, except that the status of the response is no
\* error: after a read or decoding error in the server and after a failed
\* client.Do the goroutine logs the error, writes or prints nothing and
\* takes no step but os.Exit(1), while the other goroutines go on until
\* that exit; after the exit nothing happens in the process; encoding the
\* fixed report never fails; the client prints the body of whatever
\* response it received.
C9_FatalErrors ==
  /\ [](/\ ServerErrorsFatal
        /\ ClientFailureFatal
        /\ \A i \in 1..Len(conns) :
             conns[i].pc \in {"header", "write", "return", "done"}
               => conns[i].err = NoErr
        /\ ClientHasPrinted => Printed(cliResp.body))
  /\ [][FatalStep]_vars

\* client.Do found nobody listening: the client logged the error, and the
\* process has ended with status 1 and has printed nothing; the server of
\* the same process had bound the port in the meantime.
C9_Witness ==
  /\ "client: " \in logged /\ mainPc = "exited" /\ exitCode = 1
  /\ cliPc = "fatal" /\ cliConn = -2
  /\ srvPc = "serving"
  /\ stdout = <<>>

\* C10 -- The response does not depend on the request: any two requests
\* that were answered got the same status, Content-Type and body.
C10_SameResponse ==
  \A i, j \in 1..Len(conns) :
     (conns[i].delivered /\ conns[j].delivered)
       => /\ ~FailsToDecode(conns[i].body) /\ ~FailsToDecode(conns[j].body)
          /\ conns[i].resp = conns[j].resp

\* Two requests with different coordinates, one with an extra key, were
\* both answered.
C10_Witness ==
  \E i, j \in 1..Len(conns) :
     /\ conns[i].body = BodySpec /\ conns[j].body = BodyExtra
     /\ conns[i].delivered /\ conns[j].delivered

\* The steps of the handler in the order of the source.
HandlerSteps ==
  <<"read", "decode", "build", "encode", "header", "write", "return", "done">>
StepIndex(pc) == CHOOSE k \in 1..Len(HandlerSteps) : HandlerSteps[k] = pc

\* One step of a handler: the next step of the source, or from reading and
\* decoding into log.Fatal.
HandlerStep(pc, next) ==
  IF next = "fatal" THEN pc \in {"read", "decode", "fatal"}
  ELSE /\ pc # "fatal"
       /\ StepIndex(next) \in {StepIndex(pc), StepIndex(pc) + 1}

Written(c) == c.resp.status # 0

\* What a request's record shows of the steps taken so far: each step's
\* result is there only when the results of the steps before it are.
HandlerOrder(c) ==
  /\ Written(c)
       => /\ c.hdr = "application/json"
          /\ c.resp = [status |-> 200, ctype |-> "application/json",
                       body |-> c.weatherJson]
  /\ c.hdr # "" => c.weatherJson # <<>> /\ c.err = NoErr
  /\ c.weatherJson # <<>> => c.weather = ZzyzxReport
  /\ c.weather # Zero("weatherData")
       => UnmarshalLoc(LocType, c.jsn) = [err |-> NoErr, val |-> c.location]
  /\ c.location # Zero("loc") => c.jsn = c.body /\ ~c.readErr
  /\ Len(c.jsn) <= Len(c.body) /\ c.jsn = SubSeq(c.body, 1, Len(c.jsn))
  /\ c.pc = "read" => c.jsn = <<>>
  /\ (c.pc # "read" /\ ~c.readErr) => c.jsn = c.body
  /\ c.delivered => Written(c)

\* C11 -- Ordering inside the handler, in the runs of the program: the
\* handler goes through read, decode, build, encode, set Content-Type,
\* write in this order, one step at a time, and whenever a byte of the
\* response has been written the Content-Type header had been set to
\* application/json before it.  json.Marshal does not fail for a
\* weatherData, so no run takes the branch of src/json.go:375-377 (HEncode
\* with an error), and this says nothing about that branch.
C11_HandlerOrder ==
  /\ [](\A i \in 1..Len(conns) : HandlerOrder(conns[i]))
  /\ [][\A i \in 1..Len(conns) :
          HandlerStep(conns[i].pc, conns'[i].pc)]_vars

\* A handler has written the response, as JSON.
C11_Witness ==
  \E i \in 1..Len(conns) :
     /\ conns[i].pc = "return"
     /\ Written(conns[i])
     /\ conns[i].resp.ctype = "application/json"
     /\ conns[i].resp.body # <<>>

\* C12 -- Unsynchronised startup of the combined demo: the client may send
\* its request before the server's listener is bound (the state
\* C12_Witness).  The connection is refused exactly when nobody listens at
\* the moment the client connects; after a refused connection client.Do
\* returns the error, the client logs it and exits with status 1, and no
\* response is printed, whether or not the server binds the port in the
\* meantime.  The client gets to a response only when a listener was bound
\* at the moment it connected.
C12_StartupRace ==
  /\ [](build = "demo"
          => /\ ("client: " \in logged)
                  => /\ cliPc = "fatal"
                     /\ \A k \in 1..Len(stdout) : stdout[k].kind # "Response: "
                     /\ mainPc = "exited" => exitCode = 1
             /\ cliConn = -2
                  => /\ cliPc \in {"wait", "fatal"}
                     /\ \A k \in 1..Len(stdout) : stdout[k].kind # "Response: "
             /\ cliConn > 0 => srvPc = "serving"
             /\ cliPc \in {"wait", "fatal"} => cliConn # 0
             /\ cliPc \in {"print", "close", "returned"}
                  => cliConn > 0 \/ cliConn = -1)
  /\ [][(build = "demo" /\ cliPc = "do" /\ cliPc' # cliPc)
          => /\ cliPc' = "wait"
             /\ (cliConn' = -2) <=> (portOwner = "free")
             /\ portOwner = "free"
                  => stdout' = stdout /\ conns' = conns /\ logged' = logged]_vars
  /\ [][(build = "demo" /\ cliConn = -2 /\ cliPc = "wait")
          => /\ cliConn' = -2 /\ stdout' = stdout
             /\ cliPc' # cliPc => cliPc' = "fatal" /\ "client: " \in logged']_vars
  /\ [][(build = "demo" /\ cliPc = "fatal")
          => /\ cliPc' = "fatal" /\ stdout' = stdout
             /\ mainPc' # mainPc => mainPc' = "exited" /\ exitCode' = 1]_vars

\* The demo's client connected while the server, already launched, had not
\* yet bound its listener: the error is logged, the process is gone with
\* status 1, nothing printed.
C12_Witness ==
  /\ build = "demo"
  /\ srvPc = "start" /\ portOwner = "free"
  /\ cliPc = "fatal" /\ cliConn = -2
  /\ "client: " \in logged
  /\ mainPc = "exited" /\ exitCode = 1
  /\ stdout = <<>> /\ conns = <<>>

\* How many requests the server of this process has answered, how many
\* it has taken up, how many the client of this process has sent to it,
\* and how many responses the client has printed.
Answered == Cardinality({i \in 1..Len(conns) : conns[i].delivered})
TakenUp == Cardinality({i \in 1..Len(conns) : conns[i].pc # "read"})
SentByClient == Cardinality({i \in 1..Len(conns) : conns[i].src = "client"})
ResponsesPrinted ==
  Cardinality({k \in 1..Len(stdout) : stdout[k].kind = "Response: "})

OneRequestOfClient ==
  /\ SentByClient <= 1
  /\ ResponsesPrinted <= 1
  /\ cliConn # 0 => cliPc \in {"wait", "fatal", "print", "close", "returned"}
  /\ cliPc = "returned" => ResponsesPrinted = 1

\* C13 as the spec states it -- Single-shot roles: the server accepts and
\* answers exactly one request per invocation and then returns, the client
\* sends exactly one request and reads exactly one response; no run has a
\* second handled or a second sent request.
C13_SingleShot ==
  /\ OneRequestOfClient
  /\ TakenUp <= 1
  /\ Answered <= 1
  /\ Answered = 1 => srvPc = "returned"

\* C13 -- The client is single-shot: it sends one request and prints one
\* response per invocation.  The server is not: it goes on serving after
\* it answered a request, and server() returns only when it could not bind
\* the port, having served nothing.
C13_SingleShotClient ==
  /\ OneRequestOfClient
  /\ Answered >= 1 => srvPc = "serving"
  /\ srvPc = "returned" => \A i \in 1..Len(conns) : conns[i].src # "env"

\* The client is done with its one request, and the server of the same
\* process has answered two.
C13_Witness ==
  /\ cliPc = "returned" /\ cliConn > 0
  /\ SentByClient = 1 /\ ResponsesPrinted = 1
  /\ Answered = 2
  /\ srvPc = "serving"

====
